---- MODULE Spec2Model ----
(***************************************************************************)
(* Model of src/llvm_tools.rs: one invocation of profraws_to_lcov, from    *)
(* the construction of the llvm-profdata argument list to the returned     *)
(* Result (or the panic that unwinds the call).  External collaborators    *)
(* (the toolchain locator, the file system, the two llvm tools) are the    *)
(* environment: their answers are drawn nondeterministically.              *)
(***************************************************************************)
EXTENDS Integers, Sequences, FiniteSets

\* ---------------------------------------------------------------- bounds
MaxFragments == 2
MaxEntries == 3

\* ------------------------------------------------------------ value sets
FragmentPaths == {"a.profraw", "b.profraw"}
WorkingDirs == {"wd1", "wd2"}
binary_path == "target"
Stdouts == {"lcov1", "lcov2"}
ProfdataStates == {"unresolved", "missing", "present"}
CovStates == {"unresolved", "missing", "present"}
FileLens == {0, 2}

\* working_dir.join("grcov.profdata")
JoinProfdata(dir) ==
    CASE dir = "wd1" -> "wd1/grcov.profdata"
      [] dir = "wd2" -> "wd2/grcov.profdata"

\* entry.into_path() of the n-th entry the walk yields
EntryPath(n) ==
    CASE n = 1 -> "target/e1"
      [] n = 2 -> "target/e2"
      [] n = 3 -> "target/e3"
      [] n = 4 -> "target/e4"
      [] OTHER -> "target/e5"

\* What WalkDir can yield for one entry: an Err, or a DirEntry with its
\* executable bit and its metadata (which may itself fail to be read).
WalkEntries ==
    {[ok |-> FALSE, exec |-> FALSE, meta_ok |-> FALSE, len |-> 0]}
    \cup [ok : {TRUE}, exec : BOOLEAN, meta_ok : {TRUE}, len : FileLens]
    \cup [ok : {TRUE}, exec : BOOLEAN, meta_ok : {FALSE}, len : {0}]

SeqsUpTo(S, n) == UNION {[1..k -> S] : k \in 0..n}

VARIABLES
    profraw_paths,  \* argument: the fragment paths, in the order supplied
    working_dir,    \* argument
    binary_is_file, \* binary_path.is_file()
    binary_meta,    \* executable bit and size of binary_path when it is a file
    walk,           \* what WalkDir::new(binary_path) has yielded so far, in order
    toolchain,      \* what Tool::Profdata.path() / Tool::Cov.path() find
    pc,             \* position in profraws_to_lcov
    profdata_path, args, binaries, cov_tool_path, results, next_binary,
    cmds,           \* every Command run by run(), in order, with its outcome
    warnings,       \* binaries named by warn!
    ret,            \* the returned Result
    panic           \* the panic that unwound the call, if any

inputs == <<profraw_paths, working_dir, binary_is_file, binary_meta, toolchain>>
locals == <<profdata_path, args, binaries, cov_tool_path, results, next_binary>>
vars == <<inputs, walk, pc, locals, cmds, warnings, ret, panic>>

NoRet == [kind |-> "none", reports |-> <<>>, msg |-> ""]
Ok(v) == [kind |-> "Ok", reports |-> v, msg |-> ""]
Err(m) == [kind |-> "Err", reports |-> <<>>, msg |-> m]

\* ------------------------------------------------------- pure operators
\* Vec::splice(lo..hi, ins) with a 0-based half-open range
Splice(v, lo, hi, ins) == SubSeq(v, 1, lo) \o ins \o SubSeq(v, hi + 1, Len(v))

\* Mutant: the fragments are spliced in at the end of the vector.
MergeArgsAppended(profraws, profdata) ==
    Splice(<<"merge", "-sparse", "-o", profdata>>, 4, 4, profraws)

\* lines 35-41: the fragments are spliced in at 2..2, before "-o"
MergeArgs(profraws, profdata) ==
    Splice(<<"merge", "-sparse", "-o", profdata>>, 2, 2, profraws)

\* Mutant: the export names the profile by a path of its own.
ExportArgsOtherProfile(binary, profdata) ==
    <<"export", binary, "--instr-profile", "default.profdata", "--format", "lcov">>

\* lines 66-73
ExportArgs(binary, profdata) ==
    <<"export", binary, "--instr-profile", profdata, "--format", "lcov">>

\* Mutant: the existence check of line 89 is left out.
get_profdata_path_unchecked(tc) ==
    IF tc.profdata = "unresolved" THEN Err("tool path error")
    ELSE [kind |-> "Ok", reports |-> <<>>, msg |-> "llvm-profdata"]

\* lines 87-94
get_profdata_path(tc) ==
    IF tc.profdata = "unresolved" THEN Err("tool path error")
    ELSE IF tc.profdata = "missing" THEN Err("We couldn't find llvm-profdata")
    ELSE [kind |-> "Ok", reports |-> <<>>, msg |-> "llvm-profdata"]

\* Mutant: the exit status of line 17 is not looked at.
RunResultAnyStatus(outcome, stdout) ==
    IF outcome = "launch_failed" THEN Err("Failed to execute")
    ELSE Ok(<<stdout>>)

\* lines 10-26: the Result of run() for what the child process did
RunResult(outcome, stdout) ==
    IF outcome = "launch_failed" THEN Err("Failed to execute")
    ELSE IF outcome = "exit_failure" THEN Err("Failure while running")
    ELSE Ok(<<stdout>>)

Outcomes == {"launch_failed", "exit_failure", "success"}

\* What a child process of the given tool can do in this environment: a
\* tool that is not on disk cannot be launched.
PossibleOutcomes(state) ==
    IF state = "present" THEN Outcomes ELSE {"launch_failed"}

Command(tool, a, outcome, stdout) ==
    [tool |-> tool, args |-> a, outcome |-> outcome,
     stdout |-> IF outcome = "success" THEN stdout ELSE ""]

\* Mutant: the exporter path must also exist, as the merger's must.
CovPathChecked(tc) ==
    IF tc.cov = "present"
    THEN [kind |-> "Ok", reports |-> <<>>, msg |-> "llvm-cov"]
    ELSE Err("tool path error")

\* Mutant: an unresolved exporter is replaced by a default path.
CovPathOrDefault(tc) == [kind |-> "Ok", reports |-> <<>>, msg |-> "llvm-cov"]

\* line 63: Tool::Cov.path(), before the unwrap
CovPath(tc) ==
    IF tc.cov = "unresolved" THEN Err("tool path error")
    ELSE [kind |-> "Ok", reports |-> <<>>, msg |-> "llvm-cov"]

\* Mutant: a failed export leaves an empty report in its place.
PushResultOrPlaceholder(res, r) ==
    IF r.kind = "Ok" THEN res \o r.reports ELSE Append(res, "")

\* Mutant: the output is pushed once more than it should be.
PushResultTwice(res, r) ==
    IF r.kind = "Ok" THEN res \o r.reports \o r.reports ELSE res

\* lines 75-81: what the match does to results
PushResult(res, r) ==
    IF r.kind = "Ok" THEN res \o r.reports ELSE res

\* ------------------------------------------------------------------ Init
Init ==
    /\ profraw_paths \in SeqsUpTo(FragmentPaths, MaxFragments)
    /\ working_dir \in WorkingDirs
    /\ binary_is_file \in BOOLEAN
    /\ IF binary_is_file
       THEN binary_meta \in [exec : BOOLEAN, len : FileLens]
       ELSE binary_meta = [exec |-> FALSE, len |-> 0]
    /\ walk = <<>>
    /\ toolchain \in [profdata : ProfdataStates, cov : CovStates]
    /\ pc = "start"
    /\ profdata_path = ""
    /\ args = <<>>
    /\ binaries = <<>>
    /\ cov_tool_path = ""
    /\ results = <<>>
    /\ next_binary = 0
    /\ cmds = <<>>
    /\ warnings = <<>>
    /\ ret = NoRet
    /\ panic = ""

\* --------------------------------------------------------------- actions
\* lines 33-41
BuildMergeArgs ==
    /\ pc = "start"
    /\ profdata_path' = JoinProfdata(working_dir)
    /\ args' = MergeArgs(profraw_paths, JoinProfdata(working_dir))
    /\ pc' = "merge"
    /\ UNCHANGED <<inputs, walk, binaries, cov_tool_path, results, next_binary,
                   cmds, warnings, ret, panic>>

\* line 43: get_profdata_path().and_then(|p| run(&p, &args))?
Merge ==
    /\ pc = "merge"
    /\ LET p == get_profdata_path(toolchain) IN
       IF p.kind = "Err"
       THEN /\ ret' = Err(p.msg)
            /\ pc' = "returned"
            /\ cmds' = cmds
       ELSE \E outcome \in PossibleOutcomes(toolchain.profdata) :
            LET r == RunResult(outcome, "") IN
            /\ cmds' = Append(cmds, Command(p.msg, args, outcome, ""))
            /\ IF r.kind = "Err"
               THEN ret' = Err(r.msg) /\ pc' = "returned"
               ELSE ret' = ret /\ pc' = "discover"
    /\ UNCHANGED <<inputs, walk, locals, warnings, panic>>

\* Mutant: the single file goes through the filter of line 54 as well.
DiscoverFiltered ==
    /\ pc = "discover"
    /\ IF binary_is_file
       THEN /\ binaries' = IF binary_meta.exec /\ binary_meta.len > 0
                           THEN <<binary_path>> ELSE <<>>
            /\ pc' = "resolve_cov"
       ELSE binaries' = <<>> /\ pc' = "walk"
    /\ UNCHANGED <<inputs, walk, profdata_path, args, cov_tool_path, results,
                   next_binary, cmds, warnings, ret, panic>>

\* lines 45-48
Discover ==
    /\ pc = "discover"
    /\ IF binary_is_file
       THEN binaries' = <<binary_path>> /\ pc' = "resolve_cov"
       ELSE binaries' = <<>> /\ pc' = "walk"
    /\ UNCHANGED <<inputs, walk, profdata_path, args, cov_tool_path, results,
                   next_binary, cmds, warnings, ret, panic>>

\* Mutant: the size test admits the empty file.
IsTargetOrEmpty(entry) == entry.exec /\ entry.len >= 0

\* line 54
IsTarget(entry) == entry.exec /\ entry.len > 0

\* lines 50-57: one iteration of the walk, over the entry WalkDir yields next
WalkStep ==
    /\ pc = "walk"
    /\ Len(walk) < MaxEntries
    /\ \E entry \in WalkEntries :
       /\ walk' = Append(walk, entry)
       /\ IF ~entry.ok
          THEN /\ panic' = "Failed to open directory"
               /\ pc' = "panicked"
               /\ binaries' = binaries
          ELSE IF entry.exec /\ ~entry.meta_ok
          THEN /\ panic' = "called unwrap on an Err value: metadata"
               /\ pc' = "panicked"
               /\ binaries' = binaries
          ELSE /\ binaries' = IF IsTarget(entry)
                              THEN Append(binaries, EntryPath(Len(walk) + 1))
                              ELSE binaries
               /\ UNCHANGED <<pc, panic>>
    /\ UNCHANGED <<inputs, profdata_path, args, cov_tool_path, results,
                   next_binary, cmds, warnings, ret>>

\* lines 57-60: the walk is exhausted
WalkDone ==
    /\ pc = "walk"
    /\ pc' = "resolve_cov"
    /\ UNCHANGED <<inputs, walk, locals, cmds, warnings, ret, panic>>

\* lines 62-63
ResolveCov ==
    /\ pc = "resolve_cov"
    /\ results' = <<>>
    /\ IF CovPath(toolchain).kind = "Err"
       THEN /\ panic' = "called unwrap on an Err value: Tool::Cov.path()"
            /\ pc' = "panicked"
            /\ UNCHANGED <<cov_tool_path, next_binary>>
       ELSE /\ cov_tool_path' = CovPath(toolchain).msg
            /\ next_binary' = 1
            /\ pc' = "export"
            /\ panic' = panic
    /\ UNCHANGED <<inputs, walk, profdata_path, args, binaries, cmds, warnings, ret>>

\* lines 65-82: one iteration of the export loop
ExportStep ==
    /\ pc = "export"
    /\ next_binary <= Len(binaries)
    /\ \E outcome \in PossibleOutcomes(toolchain.cov), stdout \in Stdouts :
       LET binary == binaries[next_binary]
           r == RunResult(outcome, stdout)
       IN /\ cmds' = Append(cmds, Command(cov_tool_path,
                                ExportArgs(binary, profdata_path), outcome, stdout))
          /\ results' = PushResult(results, r)
          /\ warnings' = IF r.kind = "Ok" THEN warnings ELSE Append(warnings, binary)
    /\ next_binary' = next_binary + 1
    /\ UNCHANGED <<inputs, walk, pc, profdata_path, args, binaries,
                   cov_tool_path, ret, panic>>

\* line 84
Return ==
    /\ pc = "export"
    /\ next_binary > Len(binaries)
    /\ ret' = Ok(results)
    /\ pc' = "returned"
    /\ UNCHANGED <<inputs, walk, locals, cmds, warnings, panic>>

Next ==
    \/ BuildMergeArgs
    \/ Merge
    \/ Discover
    \/ WalkStep
    \/ WalkDone
    \/ ResolveCov
    \/ ExportStep
    \/ Return

Spec == Init /\ [][Next]_vars

\* ------------------------------------------------ reading the command log
MergeCmds == SelectSeq(cmds, LAMBDA c : c.tool = "llvm-profdata")
CovCmds == SelectSeq(cmds, LAMBDA c : c.tool = "llvm-cov")
Succeeded(s) == SelectSeq(s, LAMBDA c : c.outcome = "success")
StdoutsOf(s) == [k \in 1..Len(s) |-> s[k].stdout]
BinariesOf(s) == [k \in 1..Len(s) |-> s[k].args[2]]
Range(s) == {s[k] : k \in 1..Len(s)}
\* the argument that follows "-o"
OutputArg(a) == a[(CHOOSE j \in 1..Len(a) : a[j] = "-o") + 1]

WalkPanics == {"Failed to open directory", "called unwrap on an Err value: metadata"}
CovPanic == "called unwrap on an Err value: Tool::Cov.path()"
Terminated == pc \in {"returned", "panicked"}
MergeDecided == pc \notin {"start", "merge"}
MergeFailed ==
    /\ MergeDecided
    /\ \/ toolchain.profdata # "present"
       \/ \E k \in 1..Len(cmds) :
            cmds[k].tool = "llvm-profdata" /\ cmds[k].outcome # "success"
\* discovery ran to its end and handed over a target sequence
DiscoveryComplete ==
    \/ pc \in {"resolve_cov", "export"}
    \/ ret.kind = "Ok"
    \/ pc = "panicked" /\ panic = CovPanic

\* ------------------------------------------------------------------- C1
\* C1: the reports accumulated, and finally returned, are exactly the
\* captured outputs of the export attempts that succeeded, in the order of
\* the attempts; a failed attempt adds nothing; and when the call returns Ok
\* every discovered target has been attempted, in discovery order, so a
\* failure of one target has kept no other target from its report.
C1_ReportsAreSuccessfulExports ==
    /\ results = StdoutsOf(Succeeded(CovCmds))
    /\ warnings = BinariesOf(SelectSeq(CovCmds, LAMBDA c : c.outcome # "success"))
    /\ ret.kind = "Ok" =>
         /\ ret.reports = StdoutsOf(Succeeded(CovCmds))
         /\ BinariesOf(CovCmds) = binaries

C1_Witness ==
    /\ ret.kind = "Ok"
    /\ Len(binaries) = 3
    /\ CovCmds[1].outcome = "success"
    /\ CovCmds[2].outcome = "exit_failure"
    /\ CovCmds[3].outcome = "success"
    /\ ret.reports = <<"lcov2", "lcov1">>

\* ------------------------------------------------------------------- C2
\* C2: at every point the number of reports accumulated is at most the
\* number of export attempts made, which is at most the number of
\* discovered targets; the same holds of the reports returned.
C2_ReportsAtMostTargets ==
    /\ Len(results) <= Len(CovCmds)
    /\ Len(CovCmds) <= Len(binaries)
    /\ pc = "export" => Len(CovCmds) = next_binary - 1
    /\ Len(ret.reports) <= Len(binaries)

C2_Witness ==
    /\ pc = "export"
    /\ 0 < Len(results)
    /\ Len(results) < Len(CovCmds)
    /\ Len(CovCmds) < Len(binaries)

\* ------------------------------------------------------------------- C3
\* C3: once the merge step has failed (merger unresolved, merger not on
\* disk, merge process not launched, or non-zero exit) the call has returned
\* an error with no reports, and no discovery, exporter resolution or export
\* attempt has taken place.
C3_MergeFailureAborts ==
    MergeFailed =>
        /\ pc = "returned"
        /\ ret.kind = "Err"
        /\ ret.reports = <<>>
        /\ binaries = <<>>
        /\ walk = <<>>
        /\ cov_tool_path = ""
        /\ CovCmds = <<>>
        /\ results = <<>>

C3_Witness ==
    /\ ret.kind = "Err"
    /\ Len(cmds) = 1
    /\ cmds[1].outcome = "exit_failure"
    /\ Len(profraw_paths) > 0

\* ------------------------------------------------------------------- C4
\* C4 as stated: in every invocation the merge command has been run exactly
\* once by the time the invocation ends, never zero times.
C4_Original_MergeRunExactlyOnce ==
    Terminated => Len(MergeCmds) = 1

\* C4 amended: the merge command is never run more than once, and once the
\* merge step is over it has been run exactly once if the merger tool
\* resolved to a path that exists, and not at all otherwise, whatever the
\* number of targets discovered afterwards.
C4_MergeRunOnceIffMergerFound ==
    /\ Len(MergeCmds) <= 1
    /\ MergeDecided =>
         Len(MergeCmds) = IF toolchain.profdata = "present" THEN 1 ELSE 0
    /\ ~MergeDecided => MergeCmds = <<>>

C4_Witness ==
    /\ ret.kind = "Ok"
    /\ Len(binaries) >= 2
    /\ Len(CovCmds) = Len(binaries)
    /\ Len(MergeCmds) = 1

Passed == IF pc = "panicked" /\ panic \in WalkPanics THEN Len(walk) - 1 ELSE Len(walk)

C6_TargetIffExecutableNonEmpty ==
    ~binary_is_file =>
        /\ \A k \in 1..Passed :
             (EntryPath(k) \in Range(binaries)) <=> (walk[k].exec /\ walk[k].len > 0)
        /\ Range(binaries) \subseteq {EntryPath(k) : k \in 1..Passed}
        /\ \A m, n \in 1..Len(binaries) : m # n => binaries[m] # binaries[n]

C6_Witness ==
    /\ pc = "resolve_cov"
    /\ Len(walk) = 3
    /\ walk[1] = [ok |-> TRUE, exec |-> TRUE, meta_ok |-> TRUE, len |-> 0]
    /\ walk[2] = [ok |-> TRUE, exec |-> FALSE, meta_ok |-> TRUE, len |-> 2]
    /\ walk[3] = [ok |-> TRUE, exec |-> TRUE, meta_ok |-> TRUE, len |-> 2]
    /\ binaries = <<EntryPath(3)>>

C8_Original_FragmentsAfterOutput ==
    \A k \in 1..Len(MergeCmds) :
        MergeCmds[k].args =
            <<"merge", "-sparse", "-o", JoinProfdata(working_dir)>> \o profraw_paths

\* C8 amended: the merger is given merge, -sparse, then the fragment paths
\* in the order supplied, then -o, then the merged-profile path; the
\* merged-profile path is the argument right after -o.
C8_FragmentsBeforeOutput ==
    /\ MergeDecided =>
         args = <<"merge", "-sparse">> \o profraw_paths
                    \o <<"-o", JoinProfdata(working_dir)>>
    /\ \A k \in 1..Len(MergeCmds) :
         /\ MergeCmds[k].args = <<"merge", "-sparse">> \o profraw_paths
                                    \o <<"-o", JoinProfdata(working_dir)>>
         /\ OutputArg(MergeCmds[k].args) = JoinProfdata(working_dir)

C8_Witness ==
    /\ Len(MergeCmds) = 1
    /\ profraw_paths = <<"b.profraw", "a.profraw">>
    /\ MergeCmds[1].args[3] = "b.profraw"

\* ------------------------------------------------------------------- C9
\* C9 as stated: when the merge has succeeded and discovery has handed over
\* zero targets, the call does not abort, whatever the state of the
\* exporter tool, and what it returns is Ok with an empty sequence.
C9_Original_ZeroTargetsNeverAbort ==
    (DiscoveryComplete /\ binaries = <<>>) =>
        /\ pc # "panicked"
        /\ pc = "returned" => ret = Ok(<<>>)

\* C9 amended: when the merge has succeeded, discovery has handed over zero
\* targets and the exporter tool's path can be resolved (whether or not the
\* tool is on disk), the call does not abort, runs no export, and what it
\* returns is Ok with an empty sequence.
C9_ZeroTargetsOkIfExporterResolves ==
    (DiscoveryComplete /\ binaries = <<>> /\ toolchain.cov # "unresolved") =>
        /\ pc # "panicked"
        /\ CovCmds = <<>>
        /\ pc = "export" => next_binary > Len(binaries)
        /\ pc = "returned" => ret = Ok(<<>>)

C9_Witness ==
    /\ ret = Ok(<<>>)
    /\ ~binary_is_file
    /\ Len(walk) = 2
    /\ toolchain.cov = "missing"

\* ------------------------------------------------------------------ C10
\* C10: a failed merge command is the last command run and the call has
\* returned an error; a missing merger ends the call with no command run;
\* an entry that cannot be read ends the walk and the call; an unresolved
\* exporter ends the call before any export; none of these returns reports.
\* Only failed exports are followed by further commands or by an Ok.
BadEntry(e) == ~e.ok \/ (e.exec /\ ~e.meta_ok)

C10_OnlyExportFailureIsRecovered ==
    /\ \A k \in 1..Len(cmds) :
         (cmds[k].tool = "llvm-profdata" /\ cmds[k].outcome # "success") =>
             k = Len(cmds) /\ ret.kind = "Err"
    /\ (MergeDecided /\ toolchain.profdata # "present") =>
         ret.kind = "Err" /\ cmds = <<>>
    /\ \A k \in 1..Len(walk) :
         BadEntry(walk[k]) =>
             /\ k = Len(walk)
             /\ pc = "panicked"
             /\ panic \in WalkPanics
    /\ (DiscoveryComplete /\ pc # "resolve_cov" /\ toolchain.cov = "unresolved") =>
         pc = "panicked" /\ panic = CovPanic
    /\ pc = "panicked" => ret = NoRet /\ CovCmds = <<>> /\ Len(cmds) = 1
    /\ ret.kind = "Err" => pc = "returned" /\ ret.reports = <<>> /\ CovCmds = <<>>
    /\ (ret.kind = "Ok" \/ pc = "export") =>
         \A k \in 1..Len(cmds) : cmds[k].outcome # "success" => cmds[k].tool = "llvm-cov"

C10_Witness ==
    /\ ret.kind = "Ok"
    /\ Len(ret.reports) = 1
    /\ Len(CovCmds) = 3
    /\ CovCmds[1].outcome = "launch_failed"
    /\ CovCmds[2].outcome = "exit_failure"
    /\ CovCmds[3].outcome = "success"
====
